---- MODULE Spec2Model ----
(***************************************************************************)
(* Model of the simulation/history engine of rotators.py: the Config       *)
(* class with its load-time validation, and RotatorSimulation with its     *)
(* circular history buffers, angle unwrapping and energy bookkeeping.      *)
(*                                                                         *)
(* Numbers.  Python floats are modelled by integers on a grid that keeps   *)
(* every operation of the code exact:                                      *)
(*   - angles are counted in units of pi/3, so that pi is 3, 2*pi is 6     *)
(*     and 2*cos(theta) is an integer on the whole grid;                   *)
(*   - angular velocities, J and g are even integers, so that              *)
(*     0.5 * w**2 and g * (1 - cos(theta)) are integers;                   *)
(*   - WINDOW_W, DT and the simulation time share one integer time unit;   *)
(*   - NaN stands for every non-finite float (nan, inf, -inf): it          *)
(*     propagates through the arithmetic as IEEE 754 prescribes.           *)
(* scipy's solve_ivp is outside the repository: it is a nondeterministic   *)
(* stand-in that either fails or returns some end state.                   *)
(***************************************************************************)
EXTENDS Integers, Sequences, FiniteSets, TLC

VARIABLES
    Config,     \* class Config: [WINDOW_W, DT]
    pc,         \* "import", "config_error", "loaded", "crashed", "ready"
    sim,        \* the RotatorSimulation instance (self), <<>> before it exists
    call,       \* the last call made: <<name, arguments>>
    ret,        \* what the last call returned
    appended    \* log of the records appended since the last reset()

vars == <<Config, pc, sim, call, ret, appended>>

----------------------------------------------------------------------------
(* Bounds of the model *)

MaxSteps == 5       \* accepted steps per run: t_curr stays <= MaxSteps * DT
MaxWindow == 2      \* largest WINDOW_W tried
MaxDT == 2          \* largest DT tried

WINDOW_Ws == -1 .. MaxWindow
DTs == -1 .. MaxDT

----------------------------------------------------------------------------
(* Floats *)

Pi == 3
NaN == -1000

IsFinite(x) == x # NaN

FAdd(a, b) == IF a = NaN \/ b = NaN THEN NaN ELSE a + b
FSub(a, b) == IF a = NaN \/ b = NaN THEN NaN ELSE a - b
FMul(a, b) == IF a = NaN \/ b = NaN THEN NaN ELSE a * b
FHalf(a) == IF a = NaN THEN NaN ELSE a \div 2
\* Python's float %: the result takes the sign of the (positive) divisor
FMod(a, m) == IF a = NaN THEN NaN ELSE a % m

\* 2 * np.cos(x) for x in units of pi/3
Cos2(x) ==
    IF x = NaN THEN NaN
    ELSE CASE x % (2 * Pi) = 0 -> 2
           [] x % (2 * Pi) = 1 -> 1
           [] x % (2 * Pi) = 2 -> -1
           [] x % (2 * Pi) = 3 -> -2
           [] x % (2 * Pi) = 4 -> -1
           [] x % (2 * Pi) = 5 -> 1

\* g * (1.0 - np.cos(x))
OneMinusCosTimes(k, x) == FHalf(FMul(k, FSub(2, Cos2(x))))

\* int(a / b) for b # 0: truncation toward zero
TruncDiv(a, b) ==
    LET abs(x) == IF x < 0 THEN -x ELSE x
        q == abs(a) \div abs(b)
    IN IF (a < 0) = (b < 0) THEN q ELSE -q

Min(a, b) == IF a < b THEN a ELSE b

\* np.zeros(n) and np.zeros((n, k))
Zeros(n) == [i \in 0 .. n - 1 |-> 0]
Zeros2(n, k) == [i \in 0 .. n - 1 |-> [j \in 1 .. k |-> 0]]

ArrLen(a) == Cardinality(DOMAIN a)

\* a[:n]
Slice(a, n) == [i \in 0 .. n - 1 |-> a[i]]

\* np.roll(a, shift) along axis 0: element i moves to (i + shift) mod len
Roll(a, shift) ==
    LET n == ArrLen(a)
    IN [i \in 0 .. n - 1 |-> a[(i - shift) % n]]

----------------------------------------------------------------------------
(* Config *)

\* validate() without the DT check
validate_window_only(cfg) ==
    IF cfg.WINDOW_W <= 0 THEN "WINDOW_W must be positive"
    ELSE "ok"

validate(cfg) ==
    IF cfg.WINDOW_W <= 0 THEN "WINDOW_W must be positive"
    ELSE IF cfg.DT <= 0 THEN "DT must be positive"
    ELSE "ok"

----------------------------------------------------------------------------
(* RotatorSimulation: methods as functions of self *)

\* A wrap into (-pi, pi]: pi - ((pi - dtheta) % (2 * pi))
WrapDelta_upper_closed(d) == FSub(Pi, FMod(FSub(Pi, d), 2 * Pi))

\* dtheta = (dtheta + np.pi) % (2 * np.pi) - np.pi
WrapDelta(d) == FSub(FMod(FAdd(d, Pi), 2 * Pi), Pi)

Energies(self, y) ==
    LET e1 == FAdd(FHalf(FMul(y[2], y[2])), OneMinusCosTimes(self.g, y[1]))
        e2 == FAdd(FHalf(FMul(y[4], y[4])), OneMinusCosTimes(self.g, y[3]))
        etotal == FAdd(FAdd(e1, e2),
                       OneMinusCosTimes(self.J, FSub(y[1], y[3])))
    IN <<e1, e2, etotal>>

\* _add_to_history() that never updates last_theta
_add_to_history_stale_last(self, t, y) ==
    LET dtheta == <<WrapDelta(FSub(y[1], self.last_theta[1])),
                    WrapDelta(FSub(y[3], self.last_theta[2]))>>
        unwrapped == <<FAdd(self.unwrapped_theta[1], dtheta[1]),
                       FAdd(self.unwrapped_theta[2], dtheta[2])>>
        idx == self.history_idx
    IN [self EXCEPT
          !.unwrapped_theta = unwrapped,
          !.history_t[idx] = t,
          !.history_y[idx] = y,
          !.history_energy[idx] = Energies(self, y),
          !.history_theta_unwrapped[idx] = unwrapped,
          !.history_idx = (idx + 1) % self.max_history,
          !.history_count = Min(self.history_count + 1, self.max_history)]

\* _add_to_history() whose occupancy count is not capped
_add_to_history_uncapped(self, t, y) ==
    LET dtheta == <<WrapDelta(FSub(y[1], self.last_theta[1])),
                    WrapDelta(FSub(y[3], self.last_theta[2]))>>
        unwrapped == <<FAdd(self.unwrapped_theta[1], dtheta[1]),
                       FAdd(self.unwrapped_theta[2], dtheta[2])>>
        idx == self.history_idx
    IN [self EXCEPT
          !.unwrapped_theta = unwrapped,
          !.last_theta = <<y[1], y[3]>>,
          !.history_t[idx] = t,
          !.history_y[idx] = y,
          !.history_energy[idx] = Energies(self, y),
          !.history_theta_unwrapped[idx] = unwrapped,
          !.history_idx = (idx + 1) % self.max_history,
          !.history_count = self.history_count + 1]

\* _add_to_history() that advances the write index before it writes
_add_to_history_advance_first(self, t, y) ==
    LET dtheta == <<WrapDelta(FSub(y[1], self.last_theta[1])),
                    WrapDelta(FSub(y[3], self.last_theta[2]))>>
        unwrapped == <<FAdd(self.unwrapped_theta[1], dtheta[1]),
                       FAdd(self.unwrapped_theta[2], dtheta[2])>>
        idx == (self.history_idx + 1) % self.max_history
    IN [self EXCEPT
          !.unwrapped_theta = unwrapped,
          !.last_theta = <<y[1], y[3]>>,
          !.history_t[idx] = t,
          !.history_y[idx] = y,
          !.history_energy[idx] = Energies(self, y),
          !.history_theta_unwrapped[idx] = unwrapped,
          !.history_idx = (idx + 1) % self.max_history,
          !.history_count = Min(self.history_count + 1, self.max_history)]

_add_to_history(self, t, y) ==
    LET dtheta == <<WrapDelta(FSub(y[1], self.last_theta[1])),
                    WrapDelta(FSub(y[3], self.last_theta[2]))>>
        unwrapped == <<FAdd(self.unwrapped_theta[1], dtheta[1]),
                       FAdd(self.unwrapped_theta[2], dtheta[2])>>
        idx == self.history_idx
    IN [self EXCEPT
          !.unwrapped_theta = unwrapped,
          !.last_theta = <<y[1], y[3]>>,
          !.history_t[idx] = t,
          !.history_y[idx] = y,
          !.history_energy[idx] = Energies(self, y),
          !.history_theta_unwrapped[idx] = unwrapped,
          !.history_idx = (idx + 1) % self.max_history,
          !.history_count = Min(self.history_count + 1, self.max_history)]

\* reset() that rewinds the write index but forgets history_count
reset_keeps_count(self, t1, w1, t2, w2, J, g) ==
    LET s == [self EXCEPT
                !.y_state = <<t1, w1, t2, w2>>,
                !.t_curr = 0,
                !.history_idx = 0,
                !.J = J,
                !.g = g,
                !.last_theta = <<t1, t2>>,
                !.unwrapped_theta = <<t1, t2>>]
    IN _add_to_history(s, s.t_curr, s.y_state)

\* reset() that zeroes history_count but leaves the write index where it was
reset_keeps_idx(self, t1, w1, t2, w2, J, g) ==
    LET s == [self EXCEPT
                !.y_state = <<t1, w1, t2, w2>>,
                !.t_curr = 0,
                !.history_count = 0,
                !.J = J,
                !.g = g,
                !.last_theta = <<t1, t2>>,
                !.unwrapped_theta = <<t1, t2>>]
    IN _add_to_history(s, s.t_curr, s.y_state)

\* reset() that stores its last two arguments the wrong way round
reset_swapped_params(self, t1, w1, t2, w2, J, g) ==
    LET s == [self EXCEPT
                !.y_state = <<t1, w1, t2, w2>>,
                !.t_curr = 0,
                !.history_idx = 0,
                !.history_count = 0,
                !.J = g,
                !.g = J,
                !.last_theta = <<t1, t2>>,
                !.unwrapped_theta = <<t1, t2>>]
    IN _add_to_history(s, s.t_curr, s.y_state)

reset(self, t1, w1, t2, w2, J, g) ==
    LET s == [self EXCEPT
                !.y_state = <<t1, w1, t2, w2>>,
                !.t_curr = 0,
                !.history_idx = 0,
                !.history_count = 0,
                !.J = J,
                !.g = g,
                !.last_theta = <<t1, t2>>,
                !.unwrapped_theta = <<t1, t2>>]
    IN _add_to_history(s, s.t_curr, s.y_state)

\* get_history_arrays() without the np.roll of the wrapped case
get_history_arrays_unrolled(self) ==
    IF self.history_count < self.max_history
    THEN <<Slice(self.history_t, self.history_count),
           Slice(self.history_y, self.history_count),
           Slice(self.history_energy, self.history_count),
           Slice(self.history_theta_unwrapped, self.history_count)>>
    ELSE <<self.history_t, self.history_y, self.history_energy,
           self.history_theta_unwrapped>>

\* get_history_arrays() that rolls the wrapped buffer the wrong way
get_history_arrays_roll_forward(self) ==
    IF self.history_count < self.max_history
    THEN <<Slice(self.history_t, self.history_count),
           Slice(self.history_y, self.history_count),
           Slice(self.history_energy, self.history_count),
           Slice(self.history_theta_unwrapped, self.history_count)>>
    ELSE LET shift == self.history_idx
         IN <<Roll(self.history_t, shift),
              Roll(self.history_y, shift),
              Roll(self.history_energy, shift),
              Roll(self.history_theta_unwrapped, shift)>>

get_history_arrays(self) ==
    IF self.history_count < self.max_history
    THEN <<Slice(self.history_t, self.history_count),
           Slice(self.history_y, self.history_count),
           Slice(self.history_energy, self.history_count),
           Slice(self.history_theta_unwrapped, self.history_count)>>
    ELSE LET shift == -self.history_idx
         IN <<Roll(self.history_t, shift),
              Roll(self.history_y, shift),
              Roll(self.history_energy, shift),
              Roll(self.history_theta_unwrapped, shift)>>

\* The record an append stores, computed from the engine's current fields
AppendedRecord(self) ==
    [t |-> self.t_curr,
     y |-> self.y_state,
     energy |-> Energies(self, self.y_state),
     unwrapped |-> self.unwrapped_theta]

\* reset()'s default arguments: t1 = pi - 0.001 (the grid point below pi),
\* w1 = 0, t2 = 0, w2 = 0, J = 2.0, g = 9.81 (the even grid point 10)
DefaultArgs == <<2, 0, 0, 0, 2, 10>>

\* A constructor that allocates int(WINDOW_W / DT) + 1 slots
RotatorSimulation__init__one_spare(cfg) ==
    LET n == TruncDiv(cfg.WINDOW_W, cfg.DT) + 1
        self == [max_history |-> n,
                 history_t |-> Zeros(n),
                 history_y |-> Zeros2(n, 4),
                 history_energy |-> Zeros2(n, 3),
                 history_theta_unwrapped |-> Zeros2(n, 2),
                 history_idx |-> 0,
                 history_count |-> 0,
                 y_state |-> <<0, 0, 0, 0>>,
                 t_curr |-> 0,
                 J |-> 0,
                 g |-> 0,
                 last_theta |-> <<0, 0>>,
                 unwrapped_theta |-> <<0, 0>>]
    IN reset(self, DefaultArgs[1], DefaultArgs[2], DefaultArgs[3],
             DefaultArgs[4], DefaultArgs[5], DefaultArgs[6])

RotatorSimulation__init__(cfg) ==
    LET n == TruncDiv(cfg.WINDOW_W, cfg.DT) + 2
        self == [max_history |-> n,
                 history_t |-> Zeros(n),
                 history_y |-> Zeros2(n, 4),
                 history_energy |-> Zeros2(n, 3),
                 history_theta_unwrapped |-> Zeros2(n, 2),
                 history_idx |-> 0,
                 history_count |-> 0,
                 y_state |-> <<0, 0, 0, 0>>,
                 t_curr |-> 0,
                 J |-> 0,
                 g |-> 0,
                 last_theta |-> <<0, 0>>,
                 unwrapped_theta |-> <<0, 0>>]
    IN reset(self, DefaultArgs[1], DefaultArgs[2], DefaultArgs[3],
             DefaultArgs[4], DefaultArgs[5], DefaultArgs[6])

\* The constructor raises instead of returning an engine: ZeroDivisionError
\* (DT = 0), ValueError from np.zeros (negative size) or IndexError from the
\* seed append (size 0)
ConstructorRaises(cfg) ==
    \/ cfg.DT = 0
    \/ TruncDiv(cfg.WINDOW_W, cfg.DT) + 2 <= 0

HasNaN(y) == \E i \in DOMAIN y : y[i] = NaN

\* End states the integrator stand-in may report, as
\* <<theta1 increment, omega1, theta2 increment, omega2>>
StepResults == {<<1, 2, 4, 0>>, <<3, -2, -4, 2>>}

\* solve_ivp(dynamics, (t, t + DT), y, args=(J, g), rtol=1e-7): it raises,
\* reports no success, or succeeds with sol.y[:, -1]; a non-finite start
\* state can only give a non-finite end state
solve_ivp(y) ==
    {[status |-> st, y |-> y] : st \in {"raise", "failure"}}
    \cup {[status |-> "success",
           y |-> IF HasNaN(y) THEN <<NaN, NaN, NaN, NaN>>
                 ELSE <<y[1] + r[1], r[2], y[3] + r[3], r[4]>>]
          : r \in StepResults}

\* step() that advances t_curr before it looks at sol.success
step_time_first(self, cfg, sol) ==
    IF sol.status = "raise"
    THEN [self |-> self, ret |-> <<self.t_curr, self.y_state>>]
    ELSE LET s0 == [self EXCEPT !.t_curr = self.t_curr + cfg.DT]
         IN IF sol.status # "success"
            THEN [self |-> s0, ret |-> <<s0.t_curr, s0.y_state>>]
            ELSE LET s1 == [s0 EXCEPT !.y_state = sol.y]
                     s2 == _add_to_history(s1, s1.t_curr, s1.y_state)
                 IN [self |-> s2, ret |-> <<s2.t_curr, s2.y_state>>]

\* step() that appends the record before it stores the new state and time
step_stale_record(self, cfg, sol) ==
    IF sol.status # "success"
    THEN [self |-> self, ret |-> <<self.t_curr, self.y_state>>]
    ELSE LET s1 == _add_to_history(self, self.t_curr, self.y_state)
             s2 == [s1 EXCEPT !.y_state = sol.y,
                              !.t_curr = self.t_curr + cfg.DT]
         IN [self |-> s2, ret |-> <<s2.t_curr, s2.y_state>>]

\* step(): the engine after the call and the value returned
step(self, cfg, sol) ==
    IF sol.status = "raise"
    THEN [self |-> self, ret |-> <<self.t_curr, self.y_state>>]
    ELSE IF sol.status # "success"
    THEN [self |-> self, ret |-> <<self.t_curr, self.y_state>>]
    ELSE LET s1 == [self EXCEPT !.y_state = sol.y,
                                !.t_curr = self.t_curr + cfg.DT]
             s2 == _add_to_history(s1, s1.t_curr, s1.y_state)
         IN [self |-> s2, ret |-> <<s2.t_curr, s2.y_state>>]

\* The statements of an accepted step() that write to self, after
\* self.y_state = sol.y[:, -1]: each is named by its source line
StepPoints == {"step_190", "add_134", "add_135", "add_144", "add_145",
               "add_146", "add_147", "add_149", "add_150"}

\* One statement of step() / _add_to_history(): the engine after it and the
\* statement that comes next ("ready" once step() has returned)
StepStatementAt(self, cfg, at) ==
    LET y == self.y_state
        idx == self.history_idx
    IN CASE at = "step_190" ->
              [self |-> [self EXCEPT !.t_curr = self.t_curr + cfg.DT],
               next |-> "add_134"]
         [] at = "add_134" ->
              [self |-> [self EXCEPT !.unwrapped_theta =
                   <<FAdd(self.unwrapped_theta[1],
                          WrapDelta(FSub(y[1], self.last_theta[1]))),
                     FAdd(self.unwrapped_theta[2],
                          WrapDelta(FSub(y[3], self.last_theta[2])))>>],
               next |-> "add_135"]
         [] at = "add_135" ->
              [self |-> [self EXCEPT !.last_theta = <<y[1], y[3]>>],
               next |-> "add_144"]
         [] at = "add_144" ->
              [self |-> [self EXCEPT !.history_t[idx] = self.t_curr],
               next |-> "add_145"]
         [] at = "add_145" ->
              [self |-> [self EXCEPT !.history_y[idx] = y],
               next |-> "add_146"]
         [] at = "add_146" ->
              [self |-> [self EXCEPT !.history_energy[idx] = Energies(self, y)],
               next |-> "add_147"]
         [] at = "add_147" ->
              [self |-> [self EXCEPT !.history_theta_unwrapped[idx] =
                                         self.unwrapped_theta],
               next |-> "add_149"]
         [] at = "add_149" ->
              [self |-> [self EXCEPT !.history_idx =
                                         (idx + 1) % self.max_history],
               next |-> "add_150"]
         [] at = "add_150" ->
              [self |-> [self EXCEPT !.history_count =
                           Min(self.history_count + 1, self.max_history)],
               next |-> "ready"]

Max(a, b) == IF a > b THEN a ELSE b

\* update_plots(): t_min, t_max = max(0, t - WINDOW_W), max(WINDOW_W, t)
PlotWindow(self, cfg) ==
    <<Max(0, self.t_curr - cfg.WINDOW_W), Max(cfg.WINDOW_W, self.t_curr)>>

----------------------------------------------------------------------------
(* Inputs *)

\* Arguments the driver passes to reset(): <<t1, w1, t2, w2, J, g>>
ResetArgs == {<<-2, 2, 2, 0, 0, 10>>, <<0, 0, 0, 0, 4, 2>>}

\* Arguments with a non-finite component
NonFiniteArgs == {<<NaN, 0, 0, 0, 2, 10>>, <<0, 0, 0, 0, 2, NaN>>}

----------------------------------------------------------------------------
(* Actions *)

Init ==
    /\ Config \in [WINDOW_W : WINDOW_Ws, DT : DTs]
    /\ pc = "import"
    /\ sim = <<>>
    /\ call = <<"none", <<>>>>
    /\ ret = <<>>
    /\ appended = <<>>

\* Module load: Config.validate() runs once, before anything is constructed
ModuleLoad ==
    /\ pc = "import"
    /\ pc' = IF validate(Config) = "ok" THEN "loaded" ELSE "config_error"
    /\ call' = <<"validate", <<>>>>
    /\ UNCHANGED <<Config, sim, ret, appended>>

\* RotatorSimulation()
Construct ==
    /\ pc = "loaded"
    /\ call' = <<"__init__", DefaultArgs>>
    /\ ret' = <<>>
    /\ IF ConstructorRaises(Config)
       THEN /\ pc' = "crashed"
            /\ UNCHANGED <<sim, appended>>
       ELSE /\ pc' = "ready"
            /\ sim' = RotatorSimulation__init__(Config)
            /\ appended' = <<AppendedRecord(sim')>>
    /\ UNCHANGED Config

ResetWith(a) ==
    /\ pc = "ready"
    /\ sim' = reset(sim, a[1], a[2], a[3], a[4], a[5], a[6])
    /\ call' = <<"reset", a>>
    /\ ret' = <<>>
    /\ appended' = <<AppendedRecord(sim')>>
    /\ UNCHANGED <<Config, pc>>

Reset == \E a \in ResetArgs : ResetWith(a)

ResetNonFinite == \E a \in NonFiniteArgs : ResetWith(a)

Step ==
    /\ pc = "ready"
    /\ \E sol \in solve_ivp(sim.y_state) :
         /\ sol.status = "success" => sim.t_curr < MaxSteps * Config.DT
         /\ sim' = step(sim, Config, sol).self
         /\ ret' = step(sim, Config, sol).ret
         /\ call' = <<"step", <<sol.status>>>>
         /\ appended' = IF sol.status = "success"
                        THEN Append(appended, AppendedRecord(sim'))
                        ELSE appended
    /\ UNCHANGED <<Config, pc>>

\* A read-out that rotates the backing arrays in place
GetHistory_in_place ==
    /\ pc = "ready"
    /\ ret' = get_history_arrays(sim)
    /\ call' = <<"get_history_arrays", <<>>>>
    /\ sim' = IF sim.history_count < sim.max_history
              THEN sim
              ELSE [sim EXCEPT
                      !.history_t = ret'[1],
                      !.history_y = ret'[2],
                      !.history_energy = ret'[3],
                      !.history_theta_unwrapped = ret'[4],
                      !.history_idx = 0]
    /\ UNCHANGED <<Config, pc, appended>>

GetHistory ==
    /\ pc = "ready"
    /\ ret' = get_history_arrays(sim)
    /\ call' = <<"get_history_arrays", <<>>>>
    /\ UNCHANGED <<Config, pc, sim, appended>>

Next ==
    \/ ModuleLoad
    \/ Construct
    \/ Reset
    \/ Step
    \/ GetHistory

Spec == Init /\ [][Next]_vars

\* A step() on its own thread: the integration has succeeded and
\* self.y_state = sol.y[:, -1] has been executed
StepBegin ==
    /\ pc = "ready"
    /\ sim.t_curr < MaxSteps * Config.DT
    /\ \E sol \in solve_ivp(sim.y_state) :
         /\ sol.status = "success"
         /\ sim' = [sim EXCEPT !.y_state = sol.y]
    /\ pc' = "step_190"
    /\ call' = <<"step", <<"running">>>>
    /\ ret' = <<>>
    /\ UNCHANGED <<Config, appended>>

\* The stepping thread executes its next statement; the last one returns
StepStatement ==
    /\ pc \in StepPoints
    /\ sim' = StepStatementAt(sim, Config, pc).self
    /\ pc' = StepStatementAt(sim, Config, pc).next
    /\ IF pc' = "ready"
       THEN /\ call' = <<"step", <<"success">>>>
            /\ ret' = <<sim'.t_curr, sim'.y_state>>
            /\ appended' = Append(appended, AppendedRecord(sim'))
       ELSE UNCHANGED <<call, ret, appended>>
    /\ UNCHANGED Config

\* Another thread reads the history out while step() is in progress: the
\* engine holds no lock
ConcurrentRead ==
    /\ pc \in StepPoints
    /\ ret' = get_history_arrays(sim)
    /\ call' = <<"get_history_arrays", <<"during step">>>>
    /\ UNCHANGED <<Config, pc, sim, appended>>

\* The engine embedded in a host with a stepping thread and a reading thread
NextThreaded ==
    \/ Next
    \/ StepBegin
    \/ StepStatement
    \/ ConcurrentRead

SpecThreaded == Init /\ [][NextThreaded]_vars

\* The same engine driven by a caller that also passes non-finite arguments
NextNonFinite ==
    \/ Next
    \/ ResetNonFinite

SpecNonFinite == Init /\ [][NextNonFinite]_vars

----------------------------------------------------------------------------
(* Vocabulary of the properties *)

Abs(x) == IF x < 0 THEN -x ELSE x

\* The four parallel arrays of a read-out, as a sequence of records
OutRecords(out) ==
    [i \in 1 .. ArrLen(out[1]) |->
        [t |-> out[1][i - 1],
         y |-> out[2][i - 1],
         energy |-> out[3][i - 1],
         unwrapped |-> out[4][i - 1]]]

\* The records the buffer still has to hold: the newest max_history appends
Retained ==
    LET n == Min(Len(appended), sim.max_history)
    IN SubSeq(appended, Len(appended) - n + 1, Len(appended))

IsReadout == pc = "ready" /\ call[1] = "get_history_arrays"
IsRejectedStep == pc = "ready" /\ call[1] = "step" /\ call[2][1] # "success"
IsAcceptedStep == pc = "ready" /\ call[1] = "step" /\ call[2][1] = "success"
IsReset == pc = "ready" /\ call[1] = "reset"

----------------------------------------------------------------------------
\* C1: once more records have been appended since reset() than the buffer
\* holds, get_history_arrays() returns exactly max_history records, with
\* strictly increasing times that are the times of the newest max_history
\* appends, in append order.
C1_WrappedReadout ==
    (IsReadout /\ Len(appended) > sim.max_history) =>
        LET n == sim.max_history
            times == ret[1]
        IN /\ \A k \in 1 .. 4 : ArrLen(ret[k]) = n
           /\ \A i \in 0 .. n - 2 : times[i] < times[i + 1]
           /\ \A i \in 0 .. n - 1 :
                times[i] = appended[Len(appended) - n + 1 + i].t

\* A read-out of a buffer that wrapped past slot 0, after a run that also
\* had a failed integration
C1_Witness ==
    /\ IsReadout
    /\ Len(appended) > sim.max_history + 1
    /\ sim.max_history >= 3
    /\ sim.history_idx # 0

----------------------------------------------------------------------------
\* C2: a step() whose integration fails (no success, or an exception)
\* returns the time and state held before the call and leaves the whole
\* engine as it was, so that every later step acts exactly as it would have
\* acted without the failed one.
C2_RejectedStepNoop ==
    [][(pc' = "ready" /\ call'[1] = "step" /\ call'[2][1] # "success") =>
         /\ ret' = <<sim.t_curr, sim.y_state>>
         /\ sim' = sim
         /\ \A sol \in solve_ivp(sim.y_state) :
              step(sim', Config, sol) = step(sim, Config, sol)]_vars

\* A failed integration in the middle of a run, once by an exception
C2_Witness ==
    /\ IsRejectedStep
    /\ call[2][1] = "raise"
    /\ sim.t_curr > 0
    /\ ret = <<sim.t_curr, sim.y_state>>

----------------------------------------------------------------------------
\* C3: right after reset(), whatever the buffer held before, a read-out is
\* exactly one record: time 0 and the initial conditions given to reset().
C3_ResetSeedsOneRecord ==
    IsReset =>
        LET out == get_history_arrays(sim)
        IN /\ \A k \in 1 .. 4 : ArrLen(out[k]) = 1
           /\ out[1][0] = 0
           /\ out[2][0] = <<call[2][1], call[2][2], call[2][3], call[2][4]>>

\* reset() of a buffer that had wrapped: the last slot still holds a record
\* of the previous run
C3_Witness ==
    /\ IsReset
    /\ sim.max_history >= 3
    /\ sim.history_t[sim.max_history - 1] > 0
    /\ call[2][1] # 0

----------------------------------------------------------------------------
\* C4: get_history_arrays() changes nothing in the engine, and what it
\* returns holds every retained record exactly once and nothing else.
C4_ReadoutPureAndExact ==
    [][(pc' = "ready" /\ call'[1] = "get_history_arrays") =>
         /\ sim' = sim
         /\ LET recs == OutRecords(ret')
                kept == Retained'
            IN /\ Len(recs) = Len(kept)
               /\ \A j \in 1 .. Len(kept) :
                    Cardinality({i \in 1 .. Len(recs) : recs[i] = kept[j]}) = 1
               /\ \A i \in 1 .. Len(recs) :
                    \E j \in 1 .. Len(kept) : recs[i] = kept[j]]_vars

\* A read-out of a wrapped buffer whose oldest record is not in slot 0
C4_Witness ==
    /\ IsReadout
    /\ sim.history_count = sim.max_history
    /\ sim.history_idx = 1
    /\ ArrLen(ret[1]) = sim.max_history
    /\ ret[1][0] = sim.history_t[1]

----------------------------------------------------------------------------
\* C5: in every history record, for each rotator, the stored unwrapped angle
\* and the angle of the stored state differ by a whole number of turns.
C5_UnwrappedCongruent ==
    pc = "ready" =>
        \A i \in 0 .. sim.max_history - 1 :
            /\ (sim.history_theta_unwrapped[i][1] - sim.history_y[i][1])
                   % (2 * Pi) = 0
            /\ (sim.history_theta_unwrapped[i][2] - sim.history_y[i][3])
                   % (2 * Pi) = 0

\* A retained record in which both rotators are a nonzero number of turns
\* away from the state angle
C5_Witness ==
    /\ pc = "ready"
    /\ \E i \in 0 .. sim.history_count - 1 :
         /\ sim.history_theta_unwrapped[i][1] # sim.history_y[i][1]
         /\ sim.history_theta_unwrapped[i][2] # sim.history_y[i][3]

----------------------------------------------------------------------------
\* C6: the increment an append adds to each unwrapped accumulator is the raw
\* angle difference brought into [-pi, pi) by whole turns (a raw +pi gives
\* -pi), and neighbouring records of a read-out never differ in unwrapped
\* angle by more than pi.
C6_IncrementWrapped ==
    [][(pc' = "ready" /\ call'[1] = "step" /\ call'[2][1] = "success") =>
         /\ \A k \in 1 .. 2 :
              LET raw == sim'.y_state[2 * k - 1] - sim.last_theta[k]
                  inc == sim'.unwrapped_theta[k] - sim.unwrapped_theta[k]
              IN /\ -Pi <= inc /\ inc < Pi
                 /\ (inc - raw) % (2 * Pi) = 0
                 /\ raw = Pi => inc = -Pi
         /\ LET recs == OutRecords(get_history_arrays(sim'))
            IN \A i \in 1 .. Len(recs) - 1 : \A k \in 1 .. 2 :
                 Abs(recs[i + 1].unwrapped[k] - recs[i].unwrapped[k]) <= Pi]_vars

\* An accepted step in which rotator 1 moved by exactly +pi (increment -pi)
\* and rotator 2 went from 2 to -2 (raw -4, increment 2*pi - 4)
C6_Witness ==
    /\ IsAcceptedStep
    /\ Len(appended) >= 2
    /\ LET a == appended[Len(appended) - 1]
           b == appended[Len(appended)]
       IN /\ b.y[1] - a.y[1] = Pi
          /\ b.unwrapped[1] - a.unwrapped[1] = -Pi
          /\ a.y[3] = 2 /\ b.y[3] = -2
          /\ b.unwrapped[2] - a.unwrapped[2] = 2 * Pi - 4

----------------------------------------------------------------------------
\* ceil(a / b) for positive a and b
CeilDiv(a, b) == (a + b - 1) \div b

\* C7 as stated: the capacity fixed at construction is
\* ceil(WINDOW_W / DT) + 2 for every valid configuration.
C7_CapacityIsCeil ==
    pc = "ready" =>
        sim.max_history = CeilDiv(Config.WINDOW_W, Config.DT) + 2

\* C7 (amended): the capacity fixed at construction is
\* floor(WINDOW_W / DT) + 2, which is ceil(WINDOW_W / DT) + 2 when WINDOW_W is
\* a whole multiple of DT and one less otherwise; the four backing arrays
\* have exactly that many slots, and neither reset() nor step() nor a
\* read-out ever changes it.
C7_CapacityIsFloorAndFixed ==
    [][pc' = "ready" =>
         LET W == Config'.WINDOW_W
             D == Config'.DT
             n == sim'.max_history
         IN /\ n = (W \div D) + 2
            /\ n = CeilDiv(W, D) + 2 - (IF W % D = 0 THEN 0 ELSE 1)
            /\ DOMAIN sim'.history_t = 0 .. n - 1
            /\ DOMAIN sim'.history_y = 0 .. n - 1
            /\ DOMAIN sim'.history_energy = 0 .. n - 1
            /\ DOMAIN sim'.history_theta_unwrapped = 0 .. n - 1
            /\ pc = "ready" => n = sim.max_history]_vars

\* A run that has wrapped the buffer under a WINDOW_W that is not a multiple
\* of DT
C7_Witness ==
    /\ IsAcceptedStep
    /\ Config.WINDOW_W % Config.DT # 0
    /\ Len(appended) > sim.max_history
    /\ sim.max_history = CeilDiv(Config.WINDOW_W, Config.DT) + 1

----------------------------------------------------------------------------
\* C8: with WINDOW_W <= 0 or DT <= 0 the program never gets past the
\* configuration check: the error is fatal and no engine is ever constructed.
C8_NoEngineOnInvalidConfig ==
    (Config.WINDOW_W <= 0 \/ Config.DT <= 0) =>
        pc \in {"import", "config_error"}

\* The configuration check has stopped a program whose only fault is DT
C8_Witness ==
    /\ pc = "config_error"
    /\ Config.WINDOW_W > 0
    /\ Config.DT <= 0

----------------------------------------------------------------------------
\* Every float of the engine that a caller can reach is finite
EngineFinite(self) ==
    /\ \A i \in 1 .. 4 : IsFinite(self.y_state[i])
    /\ IsFinite(self.J) /\ IsFinite(self.g)
    /\ \A k \in 1 .. 2 :
         IsFinite(self.last_theta[k]) /\ IsFinite(self.unwrapped_theta[k])
    /\ LET recs == OutRecords(get_history_arrays(self))
       IN \A i \in 1 .. Len(recs) :
            /\ IsFinite(recs[i].t)
            /\ \A j \in 1 .. 4 : IsFinite(recs[i].y[j])
            /\ \A j \in 1 .. 3 : IsFinite(recs[i].energy[j])
            /\ \A j \in 1 .. 2 : IsFinite(recs[i].unwrapped[j])

\* C9: whatever arguments reset() is given, non-finite ones included, the
\* engine's state, parameters, unwrap accumulators and retained history hold
\* only finite values.
C9_EngineStaysFinite ==
    pc = "ready" => EngineFinite(sim)

----------------------------------------------------------------------------
\* The record held in slot i of the backing arrays
SlotRecord(self, i) ==
    [t |-> self.history_t[i],
     y |-> self.history_y[i],
     energy |-> self.history_energy[i],
     unwrapped |-> self.history_theta_unwrapped[i]]

\* An append that started from write index idx and occupancy count: the
\* record went to slot idx, no other slot changed, and the index and the
\* occupancy moved on as a ring buffer's do
AppendedAt(old, new, idx, count, rec) ==
    LET n == new.max_history
    IN /\ SlotRecord(new, idx) = rec
       /\ \A i \in 0 .. n - 1 :
            i # idx => SlotRecord(new, i) = SlotRecord(old, i)
       /\ new.history_idx = (idx + 1) % n
       /\ new.history_count = Min(count + 1, n)

\* C11: every append (the one of an accepted step, and the seed append of
\* reset() after it has zeroed index and occupancy) writes the record at the
\* write index, advances the index modulo the capacity and raises the
\* occupancy capped at the capacity; index and occupancy stay in range.
C11_AppendIsRingInsert ==
    [][pc' = "ready" =>
         /\ 0 <= sim'.history_idx /\ sim'.history_idx < sim'.max_history
         /\ 0 <= sim'.history_count /\ sim'.history_count <= sim'.max_history
         /\ (pc = "ready" /\ call'[1] = "step" /\ call'[2][1] = "success") =>
              /\ Len(appended') = Len(appended) + 1
              /\ AppendedAt(sim, sim', sim.history_idx, sim.history_count,
                            appended'[Len(appended')])
         /\ (pc = "ready" /\ call'[1] = "reset") =>
              AppendedAt(sim, sim', 0, 0, appended'[1])]_vars

\* An accepted step that wrote the last slot of a full buffer, so that the
\* write index went back to 0 and the occupancy stayed at the capacity
C11_Witness ==
    /\ IsAcceptedStep
    /\ Len(appended) > sim.max_history
    /\ sim.history_idx = 0
    /\ sim.history_count = sim.max_history
    /\ SlotRecord(sim, sim.max_history - 1) = appended[Len(appended)]

----------------------------------------------------------------------------
FILLING(self) == self.history_count < self.max_history
WRAPPED(self) == self.history_count = self.max_history

\* C12: while FILLING the retained records are slots 0 .. occupancy - 1 in
\* append order and the write index equals the occupancy; when WRAPPED the
\* oldest retained record sits at the write index; a WRAPPED buffer stays
\* WRAPPED under every call but reset(), which returns it to FILLING.
C12_FillingThenWrapped ==
    [][pc' = "ready" =>
         /\ FILLING(sim') =>
              /\ sim'.history_idx = sim'.history_count
              /\ Len(appended') = sim'.history_count
              /\ \A i \in 1 .. sim'.history_count :
                   SlotRecord(sim', i - 1) = appended'[i]
         /\ WRAPPED(sim') =>
              /\ Len(appended') >= sim'.max_history
              /\ SlotRecord(sim', sim'.history_idx) = Retained'[1]
         /\ (pc = "ready" /\ WRAPPED(sim) /\ call'[1] # "reset") =>
              WRAPPED(sim')
         /\ (pc = "ready" /\ call'[1] = "reset") => FILLING(sim')]_vars

\* A buffer that went on stepping after it had wrapped: two records have
\* been overwritten and the oldest retained one is in slot 2
C12_Witness ==
    /\ IsAcceptedStep
    /\ WRAPPED(sim)
    /\ sim.history_idx = 2
    /\ Len(appended) = sim.max_history + 2
    /\ SlotRecord(sim, 2) = Retained[1]

----------------------------------------------------------------------------
\* What a read-out of the engine would return, as a sequence of records
Snapshot(self) == OutRecords(get_history_arrays(self))

\* C13: an accepted step() advances the simulation time by exactly one DT,
\* returns the new time and state, and appends exactly one record, which
\* carries that time and that state.
C13_AcceptedStepAppendsOne ==
    [][(pc' = "ready" /\ call'[1] = "step" /\ call'[2][1] = "success") =>
         LET before == Snapshot(sim)
             after == Snapshot(sim')
             kept == IF Len(before) < sim.max_history
                     THEN before ELSE Tail(before)
         IN /\ sim'.t_curr = sim.t_curr + Config.DT
            /\ ret' = <<sim'.t_curr, sim'.y_state>>
            /\ Len(after) = Len(kept) + 1
            /\ SubSeq(after, 1, Len(kept)) = kept
            /\ after[Len(after)].t = ret'[1]
            /\ after[Len(after)].y = ret'[2]]_vars

\* An accepted step on a full buffer: the new record evicted the oldest one
C13_Witness ==
    /\ IsAcceptedStep
    /\ WRAPPED(sim)
    /\ Len(appended) > sim.max_history
    /\ ret = <<sim.t_curr, sim.y_state>>
    /\ sim.t_curr = (Len(appended) - 1) * Config.DT
    /\ Config.DT > 1

----------------------------------------------------------------------------
\* C14: a read-out returns exactly min(j + 1, capacity) records after a
\* reset() and j accepted steps, and they are, position by position, the
\* newest records appended since that reset: nothing that the backing arrays
\* still hold from before the reset is returned.
C14_NoStaleRecords ==
    pc = "ready" =>
        /\ Len(Snapshot(sim)) = Min(Len(appended), sim.max_history)
        /\ Snapshot(sim) = Retained

\* A run restarted by reset() over a buffer that had wrapped: the last slot
\* still holds a record of the previous run, later than anything in this one
C14_Witness ==
    /\ IsAcceptedStep
    /\ FILLING(sim)
    /\ Len(appended) = 2
    /\ sim.history_t[sim.max_history - 1] > sim.t_curr
    /\ \A i \in 1 .. Len(Snapshot(sim)) :
         Snapshot(sim)[i] # SlotRecord(sim, sim.max_history - 1)

----------------------------------------------------------------------------
\* C15: J and g are set by reset() (and by the reset of the constructor) to
\* the arguments given, no other call changes them, and the energies of
\* every retained record are those of its state under the current J and g.
C15_ParametersSetOnlyByReset ==
    [][pc' = "ready" =>
         /\ IF call'[1] \in {"reset", "__init__"}
            THEN sim'.J = call'[2][5] /\ sim'.g = call'[2][6]
            ELSE sim'.J = sim.J /\ sim'.g = sim.g
         /\ \A i \in 1 .. Len(Snapshot(sim')) :
              Snapshot(sim')[i].energy
                  = Energies(sim', Snapshot(sim')[i].y)]_vars

\* A run of several steps under parameters that differ from the defaults
\* and from each other, with energies that depend on both
C15_Witness ==
    /\ IsAcceptedStep
    /\ Len(appended) >= 3
    /\ sim.J = 4 /\ sim.g = 2
    /\ Snapshot(sim)[Len(Snapshot(sim))].energy[3]
         # Snapshot(sim)[Len(Snapshot(sim))].energy[1]
           + Snapshot(sim)[Len(Snapshot(sim))].energy[2]

----------------------------------------------------------------------------
\* C17: between calls, the newest record of a read-out carries the engine's
\* current time t_curr and current state y_state.
C17_NewestIsCurrent ==
    pc = "ready" =>
        LET recs == Snapshot(sim)
        IN /\ Len(recs) >= 1
           /\ recs[Len(recs)].t = sim.t_curr
           /\ recs[Len(recs)].y = sim.y_state

\* A failed step after the buffer wrapped: the newest record is not in the
\* last slot and still matches the engine
C17_Witness ==
    /\ IsRejectedStep
    /\ WRAPPED(sim)
    /\ sim.history_idx \notin {0, sim.max_history - 1}
    /\ sim.t_curr > 0
    /\ Snapshot(sim)[Len(Snapshot(sim))].y = sim.y_state

----------------------------------------------------------------------------
\* C18: after reset() and k accepted steps, failed steps or not, the times
\* of a read-out are the consecutive multiples of DT from
\* max(0, k + 1 - capacity) * DT to k * DT.
C18_TimesGapFree ==
    pc = "ready" =>
        LET k == Len(appended) - 1
            first == Max(0, k + 1 - sim.max_history)
            times == get_history_arrays(sim)[1]
        IN /\ ArrLen(times) = k - first + 1
           /\ \A i \in 0 .. k - first : times[i] = (first + i) * Config.DT

\* A read-out of a wrapped buffer right after a failed step
C18_Witness ==
    /\ IsRejectedStep
    /\ Len(appended) > sim.max_history + 1
    /\ get_history_arrays(sim)[1][0] = 2 * Config.DT
    /\ sim.t_curr = (Len(appended) - 1) * Config.DT

----------------------------------------------------------------------------
\* C19: the capacity covers the display window: (capacity - 1) * DT is at
\* least WINDOW_W, a wrapped buffer's oldest time is at most
\* t_curr - WINDOW_W, and the left edge of the plotted interval is never
\* older than the oldest retained record.
C19_CapacityCoversWindow ==
    pc = "ready" =>
        LET oldest == get_history_arrays(sim)[1][0]
        IN /\ (sim.max_history - 1) * Config.DT >= Config.WINDOW_W
           /\ WRAPPED(sim) => oldest <= sim.t_curr - Config.WINDOW_W
           /\ oldest <= PlotWindow(sim, Config)[1]
           /\ PlotWindow(sim, Config)[1] <= sim.t_curr

\* A wrapped buffer under a WINDOW_W that is not a multiple of DT, with the
\* window's left edge past time 0
C19_Witness ==
    /\ IsAcceptedStep
    /\ WRAPPED(sim)
    /\ Config.WINDOW_W % Config.DT # 0
    /\ PlotWindow(sim, Config)[1] > 0
    /\ get_history_arrays(sim)[1][0] > 0

----------------------------------------------------------------------------
\* The engine once the step() in progress at statement `at` has returned
RECURSIVE Finished(_, _, _)
Finished(self, cfg, at) ==
    IF at = "ready" THEN self
    ELSE Finished(StepStatementAt(self, cfg, at).self, cfg,
                  StepStatementAt(self, cfg, at).next)

\* C16: a read-out that runs while a step() is in progress returns the
\* history either exactly as it was before the step or exactly as it is
\* after it, never a partially applied step.
C16_ReadoutSeesWholeSteps ==
    (pc \in StepPoints /\ call[1] = "get_history_arrays") =>
        \/ OutRecords(ret) = Retained
        \/ ret = get_history_arrays(Finished(sim, Config, pc))

====
